---- MODULE Spec2Model ----
(***************************************************************************)
(* Model of Weather.py: the fetch-with-retry routine                       *)
(* (fetch_raw_weather_data_for_city), the field extraction                 *)
(* (extract_required_fields), the per-city loop (get_weather_data) and the *)
(* part of main that builds cleaned_data.                                  *)
(*                                                                         *)
(* Python values are tagged records: None, Str, Num, Dict (a function from *)
(* keys to values) and List (a sequence).  Durations are in tenths of a    *)
(* second: backoff_factor 0.3 is 3, and multiplying by 2^attempt is exact  *)
(* in binary floating point, so the integer model loses nothing.           *)
(***************************************************************************)
EXTENDS Integers, Sequences, FiniteSets, TLC

VARIABLES
    pc,             \* position of the single control thread
    api_key,        \* os.getenv("API_KEY")
    city_pos,       \* get_weather_data: number of cities already handled
    results,        \* get_weather_data: results / main: weather_data_list
    fetched,        \* history: cities fetch was called for, in call order
    returned,       \* history: what each finished fetch call returned
    fetch_city,     \* fetch: parameter city
    retries,        \* fetch: parameter retries
    backoff_factor, \* fetch: parameter backoff_factor, in tenths of a second
    attempt,        \* fetch: loop variable of "for attempt in range(retries)"
    events,         \* history of the current fetch call: requests and sleeps
    ret,            \* outcome of the last fetch call
    index,          \* main: enumerate index / extract: parameter city_idx
    row,            \* outcome of the last extract_required_fields call
    cleaned_data    \* main: cleaned_data

vars == <<pc, api_key, city_pos, results, fetched, returned, fetch_city, retries,
          backoff_factor, attempt, events, ret, index, row, cleaned_data>>

----------------------------------------------------------------------------
(* Bounds of the model *)

\* fetch is explored for retries in 0..MaxRetriesArg
MaxRetriesArg == 3
\* extract_required_fields is explored on sequences of up to MaxDataLen items
MaxDataLen == 2

(* Program constants *)
DefaultRetries == 3
DefaultBackoffTenths == 3

----------------------------------------------------------------------------
(* Python values *)

None == [t |-> "None"]
Str(s) == [t |-> "str", v |-> s]
Num(n) == [t |-> "num", v |-> n]
Dict(f) == [t |-> "dict", v |-> f]
List(s) == [t |-> "list", v |-> s]
EmptyDict == Dict(<<>>)

IsDict(x) == x.t = "dict"

\* bool(x): None, "", 0, {} and [] are falsy
Truthy(x) ==
    CASE x.t = "None" -> FALSE
      [] x.t = "str"  -> x.v # ""
      [] x.t = "num"  -> x.v # 0
      [] x.t = "dict" -> DOMAIN x.v # {}
      [] x.t = "list" -> Len(x.v) > 0
      [] OTHER        -> TRUE

\* d.get(k, default) on a dict d; d.get(k) is DictGet(d, k, None)
DictGet(d, k, default) == IF k \in DOMAIN d.v THEN d.v[k] ELSE default

\* outcome of evaluating an expression: a value or a raised exception
Ok(v) == [k |-> "ok", v |-> v]
Raise(e) == [k |-> "raise", e |-> e]

\* x.get(k, default): AttributeError unless x is a dict
Get(x, k, default) ==
    IF IsDict(x) THEN Ok(DictGet(x, k, default)) ELSE Raise("AttributeError")

\* x[0]; the first character of a string is some one-character string
Subscript0(x) ==
    CASE x.t = "list" -> IF Len(x.v) > 0 THEN Ok(x.v[1]) ELSE Raise("IndexError")
      [] x.t = "str"  -> IF x.v # "" THEN Ok(Str("c")) ELSE Raise("IndexError")
      [] x.t = "dict" -> Raise("KeyError")
      [] OTHER        -> Raise("TypeError")

\* data[i] on a Python list held as a sequence: negative indices count from
\* the end, anything outside -len..len-1 raises IndexError
ListIndex(data, i) ==
    IF 0 <= i /\ i < Len(data) THEN Ok(data[i + 1])
    ELSE IF i < 0 /\ -i <= Len(data) THEN Ok(data[Len(data) + i + 1])
    ELSE Raise("IndexError")

----------------------------------------------------------------------------
(* datetime.utcfromtimestamp(ts).strftime("%Y-%m-%d %H:%M:%S") *)

Pad2(n) == IF n < 10 THEN "0" \o ToString(n) ELSE ToString(n)

Pad4(n) ==
    IF n < 10 THEN "000" \o ToString(n)
    ELSE IF n < 100 THEN "00" \o ToString(n)
    ELSE IF n < 1000 THEN "0" \o ToString(n)
    ELSE ToString(n)

\* proleptic Gregorian date of the day `days` after 1970-01-01
CivilFromDays(days) ==
    LET z   == days + 719468
        era == z \div 146097
        doe == z - era * 146097
        yoe == (doe - doe \div 1460 + doe \div 36524 - doe \div 146096) \div 365
        doy == doe - (365 * yoe + yoe \div 4 - yoe \div 100)
        mp  == (5 * doy + 2) \div 153
        d   == doy - (153 * mp + 2) \div 5 + 1
        m   == IF mp < 10 THEN mp + 3 ELSE mp - 9
        y   == yoe + era * 400 + (IF m <= 2 THEN 1 ELSE 0)
    IN  [year |-> y, month |-> m, day |-> d]

FormatUtc(ts) ==
    LET date == CivilFromDays(ts \div 86400)
        secs == ts % 86400
    IN  Pad4(date.year) \o "-" \o Pad2(date.month) \o "-" \o Pad2(date.day)
        \o " " \o Pad2(secs \div 3600) \o ":" \o Pad2((secs % 3600) \div 60)
        \o ":" \o Pad2(secs % 60)

\* utcfromtimestamp(x).strftime(...): TypeError unless x is a number (None
\* and strings included); the numbers of the model are all within the range
\* utcfromtimestamp accepts
TimestampStr(x) ==
    IF x.t = "num" THEN Ok(Str(FormatUtc(x.v))) ELSE Raise("TypeError")

----------------------------------------------------------------------------
(* extract_required_fields *)

RecordKeys ==
    {"city", "country", "temp_celsius", "feels_like_celsius", "weather_main",
     "weather_desc", "humidity", "wind_speed", "timestamp_utc"}

\* "if city and country and temp_celsius is not None"
EssentialPresentTruthyTemp(city, country, temp_celsius) ==
    Truthy(city) /\ Truthy(country) /\ Truthy(temp_celsius)

EssentialPresentNoTemp(city, country, temp_celsius) ==
    Truthy(city) /\ Truthy(country)

EssentialPresent(city, country, temp_celsius) ==
    Truthy(city) /\ Truthy(country) /\ temp_celsius # None

\* the body of the try block: the returned dict, None when the function
\* falls off its end after the "Missing essential data" message, or the
\* exception raised by the first failing lookup
ExtractTryBody(data, city_idx) ==
    LET item == ListIndex(data, city_idx) IN
    IF item.k = "raise" THEN item ELSE
    LET city  == Get(item.v, "name", None)
        sys   == Get(item.v, "sys", EmptyDict)
        main  == Get(item.v, "main", EmptyDict)
        wthr  == Get(item.v, "weather", List(<<EmptyDict>>))
        wind  == Get(item.v, "wind", EmptyDict)
    IN
    IF city.k = "raise" THEN city ELSE
    LET country == Get(sys.v, "country", None) IN
    IF country.k = "raise" THEN country ELSE
    LET temp_celsius       == Get(main.v, "temp", None)
        feels_like_celsius == Get(main.v, "feels_like", None)
    IN
    IF temp_celsius.k = "raise" THEN temp_celsius ELSE
    LET first == Subscript0(wthr.v) IN
    IF first.k = "raise" THEN first ELSE
    LET weather_main == Get(first.v, "main", None)
        weather_desc == Get(first.v, "description", None)
        humidity     == Get(main.v, "humidity", None)
    IN
    IF weather_main.k = "raise" THEN weather_main ELSE
    LET wind_speed == Get(wind.v, "speed", None) IN
    IF wind_speed.k = "raise" THEN wind_speed ELSE
    LET timestamp_utc == DictGet(item.v, "dt", None)
        timestamp_str == TimestampStr(timestamp_utc)
    IN
    IF timestamp_str.k = "raise" THEN timestamp_str ELSE
    IF EssentialPresent(city.v, country.v, temp_celsius.v)
    THEN Ok(Dict([city               |-> city.v,
                  country            |-> country.v,
                  temp_celsius       |-> temp_celsius.v,
                  feels_like_celsius |-> feels_like_celsius.v,
                  weather_main       |-> weather_main.v,
                  weather_desc       |-> weather_desc.v,
                  humidity           |-> humidity.v,
                  wind_speed         |-> wind_speed.v,
                  timestamp_utc      |-> timestamp_str.v]))
    ELSE Ok(None)

\* "except Exception": every exception class the try body can raise
ExtractCaughtLookupErrorsOnly(e) == e \in {"IndexError", "KeyError", "AttributeError"}

ExtractCaught(e) ==
    e \in {"IndexError", "KeyError", "AttributeError", "TypeError", "ValueError"}

\* the call's outcome: Ok(dict), Ok(None), or an exception left uncaught
extract_required_fields(data, city_idx) ==
    LET body == ExtractTryBody(data, city_idx) IN
    IF body.k = "raise" /\ ExtractCaught(body.e) THEN Ok(None) ELSE body

----------------------------------------------------------------------------
(* Inputs: raw observations as the provider's JSON can arrive *)

\* marks a key that the JSON object does not hold
Missing == [t |-> "missing"]

\* the JSON object holding the keys of opt whose option is not Missing
JsonObject(opt) ==
    Dict([k \in {j \in DOMAIN opt : opt[j].t # "missing"} |-> opt[k]])

NameOpts == {Missing, Str(""), Str("Seattle")}
SysOpts == {Missing, EmptyDict, JsonObject([country |-> Str("US")])}
MainOpts ==
    {Missing} \cup
    {JsonObject([temp |-> a, feels_like |-> b, humidity |-> c]) :
        a \in {Missing, Num(0), Num(15)}, b \in {Missing, Num(14)},
        c \in {Missing, Num(70)}}
WeatherOpts ==
    {Missing, List(<<>>)} \cup
    {List(<<JsonObject([main |-> a, description |-> b])>>) :
        a \in {Missing, Str("Clouds")}, b \in {Missing, Str("overcast clouds")}}
WindOpts == {Missing, None, EmptyDict, JsonObject([speed |-> Num(3)])}
DtOpts == {Missing, Str("2023-11-14"), Num(1700000000)}

Observations ==
    {JsonObject([name |-> n, sys |-> s, main |-> m, weather |-> w,
                 wind |-> v, dt |-> d]) :
        n \in NameOpts, s \in SysOpts, m \in MainOpts, w \in WeatherOpts,
        v \in WindOpts, d \in DtOpts}

\* a complete observation, used to fill the other places of a sequence
Complete ==
    JsonObject([name |-> Str("Mumbai"), sys |-> JsonObject([country |-> Str("IN")]),
                main |-> JsonObject([temp |-> Num(30), feels_like |-> Num(33),
                                     humidity |-> Num(80)]),
                weather |-> List(<<JsonObject([main |-> Str("Haze"),
                                               description |-> Str("haze")])>>),
                wind |-> JsonObject([speed |-> Num(2)]),
                dt |-> Num(951782400)])

\* an item that is no JSON object
NotAnObject == Str("error")

\* the sequences extract_required_fields is explored on
DataSeqs ==
    {<<>>} \cup
    {[i \in 1..n |-> IF i = p THEN o ELSE Complete] :
        n \in 1..MaxDataLen, p \in 1..MaxDataLen,
        o \in Observations \cup {NotAnObject}}

----------------------------------------------------------------------------
(* fetch_raw_weather_data_for_city *)

\* marks a 200 response whose body response.json() cannot decode
Undecodable == [t |-> "undecodable"]

\* what one requests.get can bring: an exception raised by the call (exc), or
\* a response with a status code and, for a 200, a body
GetRaises(e) == [exc |-> e, status |-> 0, body |-> None]
Response(status, body) == [exc |-> "", status |-> status, body |-> body]

\* the bodies a 200 response is given in the fetch and main models
FetchBodies ==
    {JsonObject([name |-> n, sys |-> JsonObject([country |-> Str("US")]),
                 main |-> m, weather |-> w,
                 wind |-> JsonObject([speed |-> Num(3)]), dt |-> d]) :
        n \in {Missing, Str("Seattle")},
        m \in {EmptyDict, JsonObject([temp |-> Num(0), humidity |-> Num(70)])},
        w \in {Missing, List(<<>>)},
        d \in {Missing, Num(1700000000)}}

Outcomes ==
    {GetRaises(e) : e \in {"Timeout", "ConnectionError"}}
    \cup {Response(s, None) : s \in {404, 401, 500}}
    \cup {Response(200, b) : b \in FetchBodies \cup {Undecodable, None, EmptyDict}}

\* the body of the try block for one attempt: Ok(v) is "return v", Raise(e)
\* an exception raised by requests.get or by response.json()
AttemptOutcomeRetryServerError(o) ==
    IF o.exc # "" THEN Raise(o.exc)
    ELSE IF o.status = 200 THEN
        IF o.body.t = "undecodable" THEN Raise("JSONDecodeError") ELSE Ok(o.body)
    ELSE IF o.status = 404 THEN Ok(None)
    ELSE IF o.status = 401 THEN Ok(None)
    ELSE Raise("RequestException")

AttemptOutcomeRequireBody(o) ==
    IF o.exc # "" THEN Raise(o.exc)
    ELSE IF o.status = 200 THEN
        IF o.body.t = "undecodable" THEN Raise("JSONDecodeError")
        ELSE IF Truthy(o.body) THEN Ok(o.body) ELSE Raise("RequestException")
    ELSE Ok(None)

AttemptOutcome(o) ==
    IF o.exc # "" THEN Raise(o.exc)
    ELSE IF o.status = 200 THEN
        IF o.body.t = "undecodable" THEN Raise("JSONDecodeError") ELSE Ok(o.body)
    ELSE IF o.status = 404 THEN Ok(None)
    ELSE IF o.status = 401 THEN Ok(None)
    ELSE Ok(None)

\* "except requests.RequestException": Timeout, ConnectionError and the
\* JSONDecodeError of response.json() are all subclasses of it, so the first
\* except clause takes every one of them
FetchCaught(e) ==
    e \in {"RequestException", "Timeout", "ConnectionError", "JSONDecodeError"}

RECURSIVE Pow2(_)
Pow2(n) == IF n <= 0 THEN 1 ELSE 2 * Pow2(n - 1)

\* backoff_factor * (2**attempt)
SleepDurationLinear(factor, n) == factor * (n + 1)

SleepDuration(factor, n) == factor * Pow2(n)

RequestEvent(o) == [e |-> "request", o |-> o]
SleepEvent(d) == [e |-> "sleep", d |-> d]

\* one pass of the loop body up to the sleep: the request and its handling
FetchRequest ==
    /\ pc = "fetch_attempt"
    /\ attempt < retries
    /\ \E o \in Outcomes :
        LET r == AttemptOutcome(o) IN
        /\ events' = Append(events, RequestEvent(o))
        /\ IF r.k = "ok"
           THEN /\ ret' = r
                /\ returned' = Append(returned, r)
                /\ pc' = "fetch_returned"
           ELSE IF FetchCaught(r.e)
           THEN /\ pc' = "fetch_sleep"
                /\ UNCHANGED <<ret, returned>>
           ELSE /\ ret' = r
                /\ returned' = Append(returned, r)
                /\ pc' = "fetch_returned"
    /\ UNCHANGED <<api_key, city_pos, results, fetched, fetch_city, retries,
                   backoff_factor, attempt, index, row, cleaned_data>>

\* time.sleep(backoff_factor * (2**attempt)), then the loop's next value
FetchSleep ==
    /\ pc = "fetch_sleep"
    /\ events' = Append(events, SleepEvent(SleepDuration(backoff_factor, attempt)))
    /\ attempt' = attempt + 1
    /\ pc' = "fetch_attempt"
    /\ UNCHANGED <<api_key, city_pos, results, fetched, returned, fetch_city,
                   retries, backoff_factor, ret, index, row, cleaned_data>>

\* range(retries) is used up: the final message and "return None"
FetchExhausted ==
    /\ pc = "fetch_attempt"
    /\ attempt >= retries
    /\ ret' = Ok(None)
    /\ returned' = Append(returned, Ok(None))
    /\ pc' = "fetch_returned"
    /\ UNCHANGED <<api_key, city_pos, results, fetched, fetch_city, retries,
                   backoff_factor, attempt, events, index, row, cleaned_data>>

----------------------------------------------------------------------------
(* get_weather_data and main *)

cities == <<"Seattle", "Mumbai", "Los Angeles">>

\* "if not api_key"
KeyMissingNoneOnly(key) == key = None

KeyMissing(key) == ~Truthy(key)

\* "if data"
KeepAlways(data) == TRUE

Keep(data) == Truthy(data)

\* "if row"
RowKept(r) == Truthy(r)

\* load_dotenv, os.getenv and the check of the key; results = []
LoadKey ==
    /\ pc = "get_weather_data"
    /\ results' = <<>>
    /\ pc' = IF KeyMissing(api_key) THEN "main_extract" ELSE "for_city"
    /\ UNCHANGED <<api_key, city_pos, fetched, returned, fetch_city, retries,
                   backoff_factor, attempt, events, ret, index, row,
                   cleaned_data>>

\* "for city in cities": the call of fetch with its default arguments
CallFetch ==
    /\ pc = "for_city"
    /\ city_pos < Len(cities)
    /\ fetch_city' = cities[city_pos + 1]
    /\ retries' = DefaultRetries
    /\ backoff_factor' = DefaultBackoffTenths
    /\ attempt' = 0
    /\ events' = <<>>
    /\ fetched' = Append(fetched, cities[city_pos + 1])
    /\ pc' = "fetch_attempt"
    /\ UNCHANGED <<api_key, city_pos, results, returned, ret, index, row,
                   cleaned_data>>

\* back in the loop: "if data: results.append(data)"
Collect ==
    /\ pc = "fetch_returned"
    /\ IF ret.k = "raise"
       THEN /\ pc' = "raised"
            /\ UNCHANGED <<results, city_pos>>
       ELSE /\ results' = IF Keep(ret.v) THEN Append(results, ret.v) ELSE results
            /\ city_pos' = city_pos + 1
            /\ pc' = "for_city"
    /\ UNCHANGED <<api_key, fetched, returned, fetch_city, retries,
                   backoff_factor, attempt, events, ret, index, row,
                   cleaned_data>>

\* "return results", and main up to cleaned_data = []
ReturnResults ==
    /\ pc = "for_city"
    /\ city_pos >= Len(cities)
    /\ pc' = "main_extract"
    /\ UNCHANGED <<api_key, city_pos, results, fetched, returned, fetch_city,
                   retries, backoff_factor, attempt, events, ret, index, row,
                   cleaned_data>>

\* one pass of "for index, data in enumerate(weather_data_list)"
ExtractStep ==
    /\ pc = "main_extract"
    /\ index < Len(results)
    /\ LET r == extract_required_fields(results, index) IN
        /\ row' = r
        /\ IF r.k = "raise"
           THEN /\ pc' = "raised"
                /\ UNCHANGED <<index, cleaned_data>>
           ELSE /\ cleaned_data' =
                       IF RowKept(r.v) THEN Append(cleaned_data, r.v)
                       ELSE cleaned_data
                /\ index' = index + 1
                /\ pc' = "main_extract"
    /\ UNCHANGED <<api_key, city_pos, results, fetched, returned, fetch_city,
                   retries, backoff_factor, attempt, events, ret>>

\* the loop is over: cleaned_data goes to the tabulation
ExtractDone ==
    /\ pc = "main_extract"
    /\ index >= Len(results)
    /\ pc' = "done"
    /\ UNCHANGED <<api_key, city_pos, results, fetched, returned, fetch_city,
                   retries, backoff_factor, attempt, events, ret, index, row,
                   cleaned_data>>

Init ==
    /\ pc = "get_weather_data"
    /\ api_key \in {None, Str(""), Str("key")}
    /\ city_pos = 0
    /\ results = <<>>
    /\ fetched = <<>>
    /\ returned = <<>>
    /\ fetch_city = ""
    /\ retries = DefaultRetries
    /\ backoff_factor = DefaultBackoffTenths
    /\ attempt = 0
    /\ events = <<>>
    /\ ret = Ok(None)
    /\ index = 0
    /\ row = Ok(None)
    /\ cleaned_data = <<>>

Next ==
    \/ LoadKey
    \/ CallFetch
    \/ FetchRequest
    \/ FetchSleep
    \/ FetchExhausted
    \/ Collect
    \/ ReturnResults
    \/ ExtractStep
    \/ ExtractDone

Spec == Init /\ [][Next]_vars

----------------------------------------------------------------------------
(* fetch_raw_weather_data_for_city as an operation on its own *)

BackoffFactors == {DefaultBackoffTenths, 10}

InitFetch ==
    /\ pc = "fetch_attempt"
    /\ fetch_city \in {cities[i] : i \in 1..Len(cities)}
    /\ retries \in 0..MaxRetriesArg
    /\ backoff_factor \in BackoffFactors
    /\ api_key = Str("key")
    /\ city_pos = 0
    /\ results = <<>>
    /\ fetched = <<>>
    /\ returned = <<>>
    /\ attempt = 0
    /\ events = <<>>
    /\ ret = Ok(None)
    /\ index = 0
    /\ row = Ok(None)
    /\ cleaned_data = <<>>

NextFetch ==
    \/ FetchRequest
    \/ FetchSleep
    \/ FetchExhausted

SpecFetch == InitFetch /\ [][NextFetch]_vars

----------------------------------------------------------------------------
(* extract_required_fields as an operation on its own *)

InitExtract ==
    /\ pc = "extract_call"
    /\ results \in DataSeqs
    /\ index \in -(MaxDataLen + 1)..MaxDataLen
    /\ api_key = Str("key")
    /\ city_pos = 0
    /\ fetched = <<>>
    /\ returned = <<>>
    /\ fetch_city = ""
    /\ retries = DefaultRetries
    /\ backoff_factor = DefaultBackoffTenths
    /\ attempt = 0
    /\ events = <<>>
    /\ ret = Ok(None)
    /\ row = Ok(None)
    /\ cleaned_data = <<>>

ExtractCall ==
    /\ pc = "extract_call"
    /\ row' = extract_required_fields(results, index)
    /\ pc' = "extract_returned"
    /\ UNCHANGED <<api_key, city_pos, results, fetched, returned, fetch_city,
                   retries, backoff_factor, attempt, events, ret, index,
                   cleaned_data>>

NextExtract == ExtractCall

SpecExtract == InitExtract /\ [][NextExtract]_vars

----------------------------------------------------------------------------
(* Vocabulary of the properties: what an observation holds, read off the    *)
(* JSON value itself                                                        *)

\* the value under key k of object o; Missing when o is no object or has no k
Lookup(o, k) == IF IsDict(o) /\ k \in DOMAIN o.v THEN o.v[k] ELSE Missing

\* a field that is there and is not null
Present(x) == x.t \notin {"missing", "None"}

\* what a missing field is reported as
OrNone(x) == IF x.t = "missing" THEN None ELSE x

ObsName(o) == Lookup(o, "name")
ObsCountry(o) == Lookup(Lookup(o, "sys"), "country")
ObsTemp(o) == Lookup(Lookup(o, "main"), "temp")
ObsDt(o) == Lookup(o, "dt")
ObsWeatherList(o) ==
    LET w == Lookup(o, "weather") IN IF w.t = "list" THEN w.v ELSE <<>>
ObsWeatherFirst(o) ==
    LET w == Lookup(o, "weather") IN
    IF w.t = "list" /\ Len(w.v) > 0 THEN w.v[1] ELSE Missing

MissingRequired(o) ==
    ~Present(ObsName(o)) \/ ~Present(ObsCountry(o)) \/ ~Present(ObsTemp(o))

EmptyRequired(o) == ObsName(o) = Str("") \/ ObsCountry(o) = Str("")

DtValid(o) == ObsDt(o).t = "num"

\* a nested container that is there but is not of the expected shape: a
\* null or scalar where an object is expected, a weather list without a
\* first object
Malformed(o) ==
    \/ ~IsDict(o)
    \/ \E k \in {"sys", "main", "wind"} : Lookup(o, k).t \notin {"missing", "dict"}
    \/ /\ Lookup(o, "weather").t # "missing"
       /\ ObsWeatherFirst(o).t # "dict"

Unextractable(o) ==
    MissingRequired(o) \/ EmptyRequired(o) \/ ~DtValid(o) \/ Malformed(o)

\* the item extract_required_fields was called on
HasItem == -Len(results) <= index /\ index < Len(results)
Item == results[IF index >= 0 THEN index + 1 ELSE Len(results) + index + 1]

RowIsRecord == row.k = "ok" /\ IsDict(row.v) /\ DOMAIN row.v.v = RecordKeys

RowMatches(o) ==
    /\ RowIsRecord
    /\ row.v.v.city = ObsName(o)
    /\ row.v.v.country = ObsCountry(o)
    /\ row.v.v.temp_celsius = ObsTemp(o)

Requests == SelectSeq(events, LAMBDA ev : ev.e = "request")
Sleeps == SelectSeq(events, LAMBDA ev : ev.e = "sleep")

IsRequest(i) == events[i].e = "request"
GotStatus(i, s) == IsRequest(i) /\ events[i].o.exc = "" /\ events[i].o.status = s
NetworkFailure(i) == IsRequest(i) /\ events[i].o.exc # ""
BodyUndecodable(i) == GotStatus(i, 200) /\ events[i].o.body = Undecodable
HttpError(i) == IsRequest(i) /\ events[i].o.exc = "" /\ events[i].o.status # 200

IsPrefix(s, t) == Len(s) <= Len(t) /\ SubSeq(t, 1, Len(s)) = s

----------------------------------------------------------------------------
(* Properties of fetch_raw_weather_data_for_city, under SpecFetch *)

\* C1: an attempt that receives a response with status 404, 401 or any
\* other non-200 code is the last event of the call: the call has returned
\* None, no request and no sleep follows, and a 404 at the first attempt
\* leaves exactly one request in total.
C1_ErrorStatusEndsCall ==
    \A i \in 1..Len(events) :
        HttpError(i) =>
            /\ i = Len(events)
            /\ pc = "fetch_returned"
            /\ ret = Ok(None)
            /\ (i = 1 => Len(Requests) = 1 /\ Len(Sleeps) = 0)

C1_Witness ==
    /\ pc = "fetch_returned"
    /\ Len(events) = 1
    /\ GotStatus(1, 404)
    /\ ret = Ok(None)

\* C2: when every attempt ends in a network-level failure, the call makes
\* exactly `retries` requests and returns None, and the sleep after the
\* failed attempt i lasts backoff_factor * 2^i: factor*1, factor*2, factor*4
\* for retries = 3.
C2_AllFailuresBackoff ==
    (pc = "fetch_returned" /\ \A i \in 1..Len(events) : IsRequest(i) => NetworkFailure(i))
    =>  /\ Len(Requests) = retries
        /\ ret = Ok(None)
        /\ Len(events) = 2 * retries
        /\ \A i \in 0..(retries - 1) :
              /\ NetworkFailure(2 * i + 1)
              /\ events[2 * i + 2] = SleepEvent(backoff_factor * 2^i)
        /\ (retries = 3 =>
              Sleeps = <<SleepEvent(backoff_factor), SleepEvent(backoff_factor * 2),
                         SleepEvent(backoff_factor * 4)>>)

C2_Witness ==
    /\ pc = "fetch_returned"
    /\ retries = 3
    /\ Len(events) = 6
    /\ \A i \in {1, 3, 5} : NetworkFailure(i)

\* C3 as stated: a further attempt is made only after a network-level
\* failure, and an attempt that receives a 200 response ends the call at
\* once with a present (non-None) return value.  Read in the claim's
\* favour: a body that is the JSON null, which parses to None, is left aside.
C3_Original_Status200EndsCallPresent ==
    \A i \in 1..Len(events) :
        /\ (GotStatus(i, 200) /\ events[i].o.body # None) =>
              /\ i = Len(events)
              /\ pc = "fetch_returned"
              /\ ret.k = "ok"
              /\ ret.v # None
        /\ (IsRequest(i) /\ i > 1) => (i >= 3 /\ NetworkFailure(i - 2))

\* C3 amended: a further attempt is made only after an attempt that raised
\* a request exception, which is a network-level failure or a 200 response
\* whose body cannot be decoded; an attempt that receives a 200 response
\* with a decodable body ends the call at once and returns the decoded body
\* (None exactly when the body is JSON null), with no request and no sleep
\* after it.
C3_DecodedBodyEndsCall ==
    \A i \in 1..Len(events) :
        /\ (GotStatus(i, 200) /\ ~BodyUndecodable(i)) =>
              /\ i = Len(events)
              /\ pc = "fetch_returned"
              /\ ret = Ok(events[i].o.body)
        /\ (IsRequest(i) /\ i > 1) =>
              /\ i >= 3
              /\ events[i - 1].e = "sleep"
              /\ NetworkFailure(i - 2) \/ BodyUndecodable(i - 2)

C3_Witness ==
    /\ pc = "fetch_returned"
    /\ Len(events) = 5
    /\ NetworkFailure(1)
    /\ BodyUndecodable(3)
    /\ GotStatus(5, 200)
    /\ ret.k = "ok"
    /\ IsDict(ret.v)
    /\ ret.v = events[5].o.body

\* C10 as stated: a backoff sleep happens only between two attempts, so a
\* call that has returned slept one time less than it made requests and its
\* last event is no sleep.
C10_Original_SleepOnlyBetweenAttempts ==
    pc = "fetch_returned" =>
        /\ Len(Sleeps) = (IF Len(Requests) = 0 THEN 0 ELSE Len(Requests) - 1)
        /\ \A i \in 1..Len(events) : events[i].e = "sleep" => i < Len(events)

----------------------------------------------------------------------------
(* Properties of extract_required_fields, under SpecExtract *)

\* C4 as stated: every observation that holds name, sys.country and
\* main.temp yields a record with these three values.  Read in the claim's
\* favour: the index is within the sequence, the name and the country are
\* non-empty and no nested container is malformed.
C4_Original_RequiredFieldsGiveRecord ==
    (/\ pc = "extract_returned"
     /\ 0 <= index /\ index < Len(results)
     /\ ~MissingRequired(Item)
     /\ ~EmptyRequired(Item)
     /\ ~Malformed(Item))
    => RowMatches(Item)

\* C4 amended: an observation that holds a non-empty name, a non-empty
\* sys.country and a non-null main.temp (0 included) yields exactly one
\* record with these three values when its dt is a number and none of its
\* nested containers is malformed; when dt is missing or no number, or a
\* nested container is malformed (an empty weather list, a null wind), the
\* call returns None.
C4_RequiredFieldsAndDtGiveRecord ==
    (/\ pc = "extract_returned"
     /\ HasItem
     /\ ~MissingRequired(Item)
     /\ ~EmptyRequired(Item))
    => IF DtValid(Item) /\ ~Malformed(Item)
       THEN RowMatches(Item)
       ELSE row = Ok(None)

C4_Witness ==
    /\ pc = "extract_returned"
    /\ HasItem
    /\ ObsName(Item) = Str("Seattle")
    /\ ObsCountry(Item) = Str("US")
    /\ ObsTemp(Item) = Num(0)
    /\ RowMatches(Item)
    /\ row.v.v.temp_celsius = Num(0)

\* C6 as stated: with name, sys.country, main.temp and a valid dt, a missing
\* optional lookup (main.feels_like, main.humidity, the weather list, its
\* first element, weather[0].main, weather[0].description, wind,
\* wind.speed) makes only its own field None: a record is returned and
\* every field that is there is copied.  Read in the claim's favour: the
\* name and country are non-empty and wind is an object or missing.
C6_Original_MissingOptionalOnlyThatField ==
    (/\ pc = "extract_returned"
     /\ 0 <= index /\ index < Len(results)
     /\ IsDict(Item)
     /\ ~MissingRequired(Item)
     /\ ~EmptyRequired(Item)
     /\ DtValid(Item)
     /\ Lookup(Item, "wind").t \in {"missing", "dict"}
     /\ Lookup(Item, "weather").t \in {"missing", "list"}
     /\ \A j \in 1..Len(ObsWeatherList(Item)) : IsDict(ObsWeatherList(Item)[j]))
    =>  /\ RowMatches(Item)
        /\ row.v.v.feels_like_celsius = OrNone(Lookup(Lookup(Item, "main"), "feels_like"))
        /\ row.v.v.humidity = OrNone(Lookup(Lookup(Item, "main"), "humidity"))
        /\ row.v.v.weather_main = OrNone(Lookup(ObsWeatherFirst(Item), "main"))
        /\ row.v.v.weather_desc = OrNone(Lookup(ObsWeatherFirst(Item), "description"))
        /\ row.v.v.wind_speed = OrNone(Lookup(Lookup(Item, "wind"), "speed"))

\* C7: extract_required_fields never lets an exception out: for every
\* sequence and every index (outside the sequence too) and every item
\* (dt missing or malformed, malformed nesting, no object at all) it
\* returns a record or None, and it returns None whenever dt is missing or
\* no number.
C7_NeverRaisesAbsentOnBadDt ==
    pc = "extract_returned" =>
        /\ row.k = "ok"
        /\ row.v = None \/ RowIsRecord
        /\ ~HasItem => row.v = None
        /\ (HasItem /\ ~DtValid(Item)) => row.v = None

C7_Witness ==
    /\ pc = "extract_returned"
    /\ HasItem
    /\ ~MissingRequired(Item)
    /\ ~EmptyRequired(Item)
    /\ ~Malformed(Item)
    /\ ObsDt(Item) = Missing
    /\ row = Ok(None)

----------------------------------------------------------------------------
(* Properties of get_weather_data and main, under Spec *)

KeyAbsent == api_key = None \/ api_key = Str("")

ReturnedValues == [i \in 1..Len(returned) |-> returned[i].v]

MainHasResults == pc \in {"main_extract", "done"}

\* C5 as stated: the number of records collected by main is the number of
\* observations minus the number of observations missing a required field.
\* Read in the claim's favour: no observation has a malformed nested
\* container.
C5_Original_CountMinusMissingRequired ==
    (pc = "done" /\ \A i \in 1..Len(results) : ~Malformed(results[i])) =>
        Len(cleaned_data) =
            Len(results) - Cardinality({i \in 1..Len(results) : MissingRequired(results[i])})

\* C5 amended: an observation missing name, sys.country or main.temp yields
\* None at its index, and the number of records collected by main is the
\* number of observations minus the number of observations for which the
\* extraction returns None: those with a missing or empty required field,
\* those whose dt is missing or no number, and those with a malformed
\* nested container (such as an empty weather list).
C5_CountMinusUnextractable ==
    /\ (MainHasResults /\ index > 0 /\ MissingRequired(results[index]))
           => row = Ok(None)
    /\ MainHasResults =>
           Len(cleaned_data) =
               index - Cardinality({i \in 1..index : Unextractable(results[i])})
    /\ pc = "done" => index = Len(results)

C5_Witness ==
    /\ pc = "done"
    /\ Len(results) = 3
    /\ Len(cleaned_data) = 2
    /\ ~Present(ObsTemp(results[2]))
    /\ Present(ObsName(results[2]))
    /\ DtValid(results[2])
    /\ ~Malformed(results[2])

\* C8: with API_KEY absent or empty, get_weather_data returns an empty list
\* without raising, and no fetch is called and no request is made for any
\* city.
C8_NoKeyNoFetch ==
    KeyAbsent =>
        /\ fetched = <<>>
        /\ events = <<>>
        /\ returned = <<>>
        /\ results = <<>>
        /\ pc \in {"get_weather_data", "main_extract", "done"}

C8_Witness ==
    /\ api_key = Str("")
    /\ pc = "done"
    /\ results = <<>>

\* C9 as stated: with a key, every city is fetched once, in order, and the
\* result holds exactly the values the fetches returned that are not None.
C9_Original_ResultsAreReturnedNonNone ==
    (MainHasResults /\ ~KeyAbsent) =>
        /\ fetched = cities
        /\ results = SelectSeq(ReturnedValues, LAMBDA v : v # None)

C9_State ==
    ~KeyAbsent =>
        /\ IsPrefix(fetched, cities)
        /\ Len(returned) <= Len(fetched)
        /\ Len(fetched) <= Len(returned) + 1
        /\ pc # "raised"
        /\ MainHasResults =>
              /\ fetched = cities
              /\ Len(returned) = Len(cities)
              /\ results = SelectSeq(ReturnedValues, Truthy)

\* C9 amended: with a key, every city is fetched exactly once, in list
\* order, whatever the earlier fetches returned; the result holds, in city
\* order, exactly the values the fetches returned that are non-empty (a
\* returned None and a returned empty value such as {} are both left out),
\* and the result list is only ever appended to.
C9_AllCitiesFetchedResultsAppended ==
    /\ []C9_State
    /\ [][IsPrefix(results, results')]_vars

C9_Witness ==
    /\ pc = "done"
    /\ ~KeyAbsent
    /\ fetched = cities
    /\ Len(returned) = 3
    /\ returned[1] = Ok(None)
    /\ returned[2] = Ok(EmptyDict)
    /\ Len(results) = 1
    /\ results[1] = returned[3].v

====
